---------------------------- MODULE Spec2Model ----------------------------
(***************************************************************************)
(* Model of GangaSNOplus/Lib/RATProd.py: the RATProd application           *)
(* (configure), the RATSplitter (split) and the three runtime handlers     *)
(* (RTHandler, WGRTHandler, LCGRTHandler: prepare).                        *)
(*                                                                         *)
(* Python values whose runtime type the code inspects are tagged records   *)
(* [t, v]: PyStr("a"), PyList(<<"a","b">>), PyNone.  Python str is a TLA+  *)
(* string; a Python list of str is a TLA+ sequence of strings.             *)
(***************************************************************************)
EXTENDS Integers, Sequences, FiniteSets, TLC

VARIABLES
    splitter,   \* the RATSplitter's schema fields (the split request)
    master,     \* the master job: application, sandboxes, backend
    config,     \* the option registry read as config[...] / app.config[...]
    osenv,      \* os.environ's X509_USER_PROXY and the paths that exist
    pc,         \* position of the submission: split / splitting / run / split_failed
    sp,         \* locals of RATSplitter.split: fin, fout, nFiles, nScript, nMacro, i
    jobs,       \* the jobs handed to configure/prepare (sub-jobs, or the master)
    tmpfiles    \* files under /tmp written by prepare: name -> lines written

vars == <<splitter, master, config, osenv, pc, sp, jobs, tmpfiles>>

---------------------------------------------------------------------------
(* Bounds of the model *)

MaxFiles == 2

MaxJobs == 2

---------------------------------------------------------------------------
(* Python values *)

PyNone == [t |-> "none", v |-> ""]
PyStr(s) == [t |-> "str", v |-> s]
PyList(l) == [t |-> "list", v |-> l]
File(name) == [t |-> "File", v |-> name]

\* '%s' % x  for a str or None
Fmt(x) == IF x.t = "none" THEN "None" ELSE x.v

\* the characters of a Python str, as iterating over it yields them
Chars(s) == [n \in 1..Len(s) |-> SubSeq(s, n, n)]

\* what `for i,var in enumerate(x)` yields for a list or a str
Elements(x) == IF x.t = "list" THEN x.v ELSE Chars(x.v)

\* truthiness of a str-or-None option value: `not x`
Falsy(x) == x.t = "none" \/ x.v = ""

RECURSIVE LastSlash(_, _)
LastSlash(s, n) ==
    IF n = 0 THEN 0
    ELSE IF SubSeq(s, n, n) = "/" THEN n
    ELSE LastSlash(s, n - 1)

\* decimated = path.split('/'); decimated[len(decimated)-1]
LastComponent(path) == SubSeq(path, LastSlash(path, Len(path)) + 1, Len(path))

\* os.path.basename(path)
Basename(path) == SubSeq(path, LastSlash(path, Len(path)) + 1, Len(path))

RECURSIVE AppendEach(_, _)
\* for i,var in enumerate(files): acc += '%s,' % var
AppendEach(acc, files) ==
    IF files = <<>> THEN acc
    ELSE AppendEach(acc \o Head(files) \o ",", Tail(files))

\* if len(foutList)!=1: foutList='%s]'%foutList[:-1]
SerializeClose(raw) ==
    IF Len(raw) # 1 THEN SubSeq(raw, 1, Len(raw) - 1) \o "]" ELSE raw

\* foutList / finList as the three handlers build them
Serialize(files) == SerializeClose(AppendEach("[", Elements(files)))


---------------------------------------------------------------------------
(* RATProd.configure *)

\* the checks that raise, in the order configure makes them; "" when none does
ConfigureError(app, cfg) ==
    IF app.prodScript = "" /\ app.ratMacro = ""
    THEN "prodScript or ratMacro not defined"
    ELSE IF app.prodScript # "" /\ app.ratMacro # ""
    THEN "both prodScript and ratMacro are defined"
    ELSE IF app.useDB /\ Falsy(cfg.rat_db_pswd)
    THEN "Need a password in order to contact the ratdb database"
    ELSE ""

\* the sandbox entries configure appends
ConfigureSandbox(job) ==
    IF job.app.ratMacro # ""
    THEN [job EXCEPT
            !.inputsandbox = Append(@, File(job.app.ratMacro)),
            !.outputsandbox = Append(Append(@, "rat.log"), "return_card.js")]
    ELSE [job EXCEPT
            !.inputsandbox = Append(@, File(job.app.prodScript)),
            !.outputsandbox = Append(@, "return_card.js")]

\* if type(x) is str: x = [x]
ForceList(x) == IF x.t = "str" THEN PyList(<<x.v>>) ELSE x

\* variant: only inputFiles is forced into a list
ConfigureFiles_InputOnly(job) ==
    [job EXCEPT !.app.inputFiles = ForceList(@)]

ConfigureFiles(job) ==
    [job EXCEPT !.app.inputFiles = ForceList(@),
                !.app.outputFiles = ForceList(@)]

ConfigureJob(job, cfg) ==
    IF ConfigureError(job.app, cfg) # ""
    THEN [job EXCEPT !.phase = "configure_failed",
                     !.error = ConfigureError(job.app, cfg)]
    ELSE [ConfigureFiles(ConfigureSandbox(job)) EXCEPT !.phase = "configured"]

---------------------------------------------------------------------------
(* RATSplitter.split *)

\* fin, fout, nFiles, nScript, nMacro as split computes them before validating
SplitLocals(s) ==
    [fin     |-> Len(s.inputFiles) # 0,
     fout    |-> Len(s.outputFiles) # 0,
     nFiles  |-> IF Len(s.outputFiles) # 0 THEN Len(s.outputFiles)
                 ELSE IF Len(s.inputFiles) # 0 THEN Len(s.inputFiles)
                 ELSE 0,
     nScript |-> Len(s.prodScript),
     nMacro  |-> Len(s.ratMacro),
     i       |-> 0]

\* variant: the check that scripts and macros are not both given is left out
SplitError_BothAllowed(s, l) ==
    IF l.nScript = 0 /\ l.nMacro = 0
    THEN "must provide EITHER macros or scripts"
    ELSE IF ~l.fin /\ ~l.fout
    THEN "Why are you splitting?"
    ELSE IF l.fin /\ l.fout /\ Len(s.inputFiles) # Len(s.outputFiles)
    THEN "input/output numbers dont match"
    ELSE IF l.nScript # 0 /\ l.nScript # l.nFiles
    THEN "script/file numbers dont match"
    ELSE IF l.nMacro # 0 /\ l.nMacro # l.nFiles
    THEN "macro/file numbers dont match"
    ELSE ""

\* variant: the input/output comparison is made only when the script or macro
\* count does not already match the file count
SplitError_CountFirst(s, l) ==
    IF l.nScript # 0 /\ l.nMacro # 0
    THEN "cannot provide both scripts and macros, must be either or"
    ELSE IF l.nScript = 0 /\ l.nMacro = 0
    THEN "must provide EITHER macros or scripts"
    ELSE IF ~l.fin /\ ~l.fout
    THEN "Why are you splitting?"
    ELSE IF l.nScript # 0 /\ l.nScript = l.nFiles
    THEN ""
    ELSE IF l.nMacro # 0 /\ l.nMacro = l.nFiles
    THEN ""
    ELSE IF l.fin /\ l.fout /\ Len(s.inputFiles) # Len(s.outputFiles)
    THEN "input/output numbers dont match"
    ELSE IF l.nScript # 0
    THEN "script/file numbers dont match"
    ELSE "macro/file numbers dont match"

\* variant: the macro count is not compared with the file count
SplitError_NoMacroCount(s, l) ==
    IF l.nScript # 0 /\ l.nMacro # 0
    THEN "cannot provide both scripts and macros, must be either or"
    ELSE IF l.nScript = 0 /\ l.nMacro = 0
    THEN "must provide EITHER macros or scripts"
    ELSE IF ~l.fin /\ ~l.fout
    THEN "Why are you splitting?"
    ELSE IF l.fin /\ l.fout /\ Len(s.inputFiles) # Len(s.outputFiles)
    THEN "input/output numbers dont match"
    ELSE IF l.nScript # 0 /\ l.nScript # l.nFiles
    THEN "script/file numbers dont match"
    ELSE ""

\* the checks that raise, in the order split makes them; "" when none does
SplitError(s, l) ==
    IF l.nScript # 0 /\ l.nMacro # 0
    THEN "cannot provide both scripts and macros, must be either or"
    ELSE IF l.nScript = 0 /\ l.nMacro = 0
    THEN "must provide EITHER macros or scripts"
    ELSE IF ~l.fin /\ ~l.fout
    THEN "Why are you splitting?"
    ELSE IF l.fin /\ l.fout /\ Len(s.inputFiles) # Len(s.outputFiles)
    THEN "input/output numbers dont match"
    ELSE IF l.nScript # 0 /\ l.nScript # l.nFiles
    THEN "script/file numbers dont match"
    ELSE IF l.nMacro # 0 /\ l.nMacro # l.nFiles
    THEN "macro/file numbers dont match"
    ELSE ""

\* j = self.createSubjob(job): a new job carrying a copy of the master's
\* application, sandboxes and backend
CreateSubjob(job) ==
    [app |-> job.app, inputsandbox |-> job.inputsandbox,
     outputsandbox |-> job.outputsandbox, backend |-> job.backend,
     phase |-> "new", error |-> "", jobconfig |-> job.jobconfig]

\* variant: the script or macro is taken from the first entry for every sub-job
SplitSubjob_FirstScript(s, l, job, n) ==
    LET j  == CreateSubjob(job)
        j1 == IF l.fout THEN [j EXCEPT !.app.outputFiles = s.outputFiles[n]] ELSE j
        j2 == IF l.fin THEN [j1 EXCEPT !.app.inputFiles = s.inputFiles[n]] ELSE j1
    IN  IF l.nMacro # 0
        THEN [j2 EXCEPT !.app.ratMacro = s.ratMacro[1]]
        ELSE [j2 EXCEPT !.app.prodScript = s.prodScript[1]]

\* the body of the loop for index i (Python's 0-based i is n - 1)
SplitSubjob(s, l, job, n) ==
    LET j  == CreateSubjob(job)
        j1 == IF l.fout THEN [j EXCEPT !.app.outputFiles = s.outputFiles[n]] ELSE j
        j2 == IF l.fin THEN [j1 EXCEPT !.app.inputFiles = s.inputFiles[n]] ELSE j1
    IN  IF l.nMacro # 0
        THEN [j2 EXCEPT !.app.ratMacro = s.ratMacro[n]]
        ELSE [j2 EXCEPT !.app.prodScript = s.prodScript[n]]

---------------------------------------------------------------------------
(* Argument assembly shared by the handlers' prepare methods *)

\* _app_directory, os.path.dirname(__file__)
AppDirectory == "Lib"

\* the list-form run-file arguments
RunFileList(app) ==
    IF app.ratMacro # ""
    THEN <<"-m", LastComponent(app.ratMacro)>>
    ELSE <<"-k", "-m", LastComponent(app.prodScript)>>

\* the list-form database arguments
DBList(app, cfg) ==
    IF app.useDB
    THEN <<"--dbuser", cfg.rat_db_user.v, "--dbpassword", cfg.rat_db_pswd.v,
           "--dbname", cfg.rat_db_name.v, "--dbprotocol", cfg.rat_db_protocol.v,
           "--dburl", cfg.rat_db_url.v>>
    ELSE <<>>

NoStoreList(app) == IF app.discardOutput THEN <<"--nostore">> ELSE <<>>

\* RTHandler.prepare, app.environment==None: args as a list
RTArgsList(app, swDir, cfg) ==
    <<"-v", app.ratVersion>>
    \o <<"-s", swDir>>
    \o <<"-d", app.outputDir>>
    \o <<"-o", Serialize(app.outputFiles)>>
    \o <<"-x", app.inputDir>>
    \o <<"-i", Serialize(app.inputFiles)>>
    \o RunFileList(app)
    \o DBList(app, cfg)
    \o NoStoreList(app)

\* variant: the script-mode marker is not emitted
RunFileString_NoMarker(app) ==
    IF app.ratMacro # ""
    THEN "-m " \o LastComponent(app.ratMacro) \o " "
    ELSE "-m " \o LastComponent(app.prodScript) \o " "

\* the string-form run-file arguments (the same text in all three handlers)
RunFileString(app) ==
    IF app.ratMacro # ""
    THEN "-m " \o LastComponent(app.ratMacro) \o " "
    ELSE "-k -m " \o LastComponent(app.prodScript) \o " "

\* variant: the database name is emitted before the password
DBString_NameFirst(app, cfg) ==
    IF app.useDB
    THEN "--dbuser " \o Fmt(cfg.rat_db_user) \o " "
         \o "--dbname " \o Fmt(cfg.rat_db_name) \o " "
         \o "--dbpassword " \o Fmt(cfg.rat_db_pswd) \o " "
         \o "--dbprotocol " \o Fmt(cfg.rat_db_protocol) \o " "
         \o "--dburl " \o Fmt(cfg.rat_db_url) \o " "
    ELSE ""

\* the string-form database arguments (the same text in all three handlers)
DBString(app, cfg) ==
    IF app.useDB
    THEN "--dbuser " \o Fmt(cfg.rat_db_user) \o " "
         \o "--dbpassword " \o Fmt(cfg.rat_db_pswd) \o " "
         \o "--dbname " \o Fmt(cfg.rat_db_name) \o " "
         \o "--dbprotocol " \o Fmt(cfg.rat_db_protocol) \o " "
         \o "--dburl " \o Fmt(cfg.rat_db_url) \o " "
    ELSE ""

NoStoreString(app) == IF app.discardOutput THEN "--nostore " ELSE ""

\* RTHandler.prepare, environment given: args as one string
RTArgsString(app, swDir, cfg) ==
    "-v " \o app.ratVersion \o " "
    \o "-s " \o swDir \o " "
    \o "-d " \o app.outputDir \o " "
    \o "-o " \o Serialize(app.outputFiles) \o " "
    \o "-x " \o app.inputDir \o " "
    \o "-i " \o Serialize(app.inputFiles) \o " "
    \o RunFileString(app)
    \o DBString(app, cfg)
    \o NoStoreString(app)

\* variant: the proxy flag is appended last
WGArgsString_ProxyLast(app, swDir, voproxy, cfg) ==
    "-g srm "
    \o "-v " \o app.ratVersion \o " "
    \o "-s " \o swDir \o " "
    \o "-d " \o app.outputDir \o " "
    \o "-o " \o Serialize(app.outputFiles) \o " "
    \o "-x " \o app.inputDir \o " "
    \o "-i " \o Serialize(app.inputFiles) \o " "
    \o RunFileString(app)
    \o DBString(app, cfg)
    \o NoStoreString(app)
    \o "--voproxy " \o voproxy \o " "

\* WGRTHandler.prepare: args as one string
WGArgsString(app, swDir, voproxy, cfg) ==
    "-g srm "
    \o "-v " \o app.ratVersion \o " "
    \o "-s " \o swDir \o " "
    \o "-d " \o app.outputDir \o " "
    \o "-o " \o Serialize(app.outputFiles) \o " "
    \o "-x " \o app.inputDir \o " "
    \o "-i " \o Serialize(app.inputFiles) \o " "
    \o RunFileString(app)
    \o "--voproxy " \o voproxy \o " "
    \o DBString(app, cfg)
    \o NoStoreString(app)

\* LCGRTHandler.prepare: args as one string
LCGArgsString(app, swDir, cfg) ==
    "-g lcg "
    \o "-v " \o app.ratVersion \o " "
    \o "-s " \o swDir \o " "
    \o "-d " \o app.outputDir \o " "
    \o "-o " \o Serialize(app.outputFiles) \o " "
    \o "-x " \o app.inputDir \o " "
    \o "-i " \o Serialize(app.inputFiles) \o " "
    \o RunFileString(app)
    \o DBString(app, cfg)
    \o NoStoreString(app)

---------------------------------------------------------------------------
(* The handlers.  Each yields [job, tmpfiles]: the job as prepare leaves it *)
(* (phase "prepared" with its job config, or "prepare_failed") and /tmp.    *)

Raise(job, msg, files) ==
    [job |-> [job EXCEPT !.phase = "prepare_failed", !.error = msg],
     tmpfiles |-> files]

RECURSIVE WriteLines(_)
\* for line in app.environment: tempf.write('%s \n' % line)
WriteLines(lines) ==
    IF lines = <<>> THEN <<>>
    ELSE <<Head(lines) \o " \n">> \o WriteLines(Tail(lines))

\* 'tempRATProdEnv_%s' % os.getlogin()
TempName(env) == "tempRATProdEnv_" \o env.login

\* file('/tmp/%s' % tempname, 'w'), the writes, close
WriteTemp(files, name, lines) == (name :> WriteLines(lines)) @@ files

\* RTHandler.prepare, the branch that ships an environment
RTPrepareEnv(job, swDir, cfg, env, files) ==
    LET app      == job.app
        isList   == app.environment.t = "list"
        tempname == TempName(env)
        envFile  == IF isList THEN tempname ELSE Basename(app.environment.v)
        shipped  == IF isList THEN PyStr("/tmp/" \o tempname)
                    ELSE PyStr(app.environment.v)
        args     == RTArgsString(app, swDir, cfg)
    IN  [job |-> [job EXCEPT
                    !.inputsandbox =
                        Append(Append(@, shipped),
                               PyStr(AppDirectory \o "/ratProdRunner.py")),
                    !.phase = "prepared",
                    !.jobconfig =
                        [exe  |-> AppDirectory \o "/sillyPythonWrapper.py",
                         args |-> <<"-s", "ratProdRunner.py", "-l", "misc",
                                    "-f", envFile, "-a", args>>]],
         tmpfiles |-> IF isList THEN WriteTemp(files, tempname, app.environment.v)
                      ELSE files]

\* variant: the software directory is checked after the environment is shipped
RTPrepare_LateCheck(job, cfg, env, files) ==
    IF job.app.environment.t = "none"
    THEN IF job.app.ratDirectory = ""
         THEN Raise(job, "Must specify a RAT directory", files)
         ELSE [job |-> [job EXCEPT
                          !.phase = "prepared",
                          !.jobconfig =
                              [exe  |-> AppDirectory \o "/ratProdRunner.py",
                               args |-> RTArgsList(job.app, job.app.ratDirectory, cfg)]],
               tmpfiles |-> files]
    ELSE IF job.app.ratDirectory = ""
         THEN Raise([job EXCEPT !.inputsandbox =
                        RTPrepareEnv(job, "", cfg, env, files).job.inputsandbox],
                    "Must specify a RAT directory",
                    RTPrepareEnv(job, "", cfg, env, files).tmpfiles)
         ELSE RTPrepareEnv(job, job.app.ratDirectory, cfg, env, files)

\* RTHandler.prepare
RTPrepare(job, cfg, env, files) ==
    IF job.app.ratDirectory = ""
    THEN Raise(job, "Must specify a RAT directory", files)
    ELSE IF job.app.environment.t = "none"
    THEN [job |-> [job EXCEPT
                     !.phase = "prepared",
                     !.jobconfig =
                         [exe  |-> AppDirectory \o "/ratProdRunner.py",
                          args |-> RTArgsList(job.app, job.app.ratDirectory, cfg)]],
          tmpfiles |-> files]
    ELSE RTPrepareEnv(job, job.app.ratDirectory, cfg, env, files)

\* voproxy as WGRTHandler.prepare resolves it; PyNone when the lookup fails
ResolveProxy(job, env) ==
    IF job.backend.voproxy.t = "none" THEN env.X509_USER_PROXY
    ELSE job.backend.voproxy

\* WGRTHandler.prepare
WGPrepare(job, cfg, env, files) ==
    IF job.app.ratDirectory = ""
    THEN Raise(job, "Must specify a RAT directory", files)
    ELSE IF ResolveProxy(job, env).t = "none"
    THEN Raise(job, "Cannot run without voproxy", files)
    ELSE IF ResolveProxy(job, env).v \notin env.paths
    THEN Raise(job, "Valid WestGrid backend voproxy location MUST be specified", files)
    ELSE [job |-> [job EXCEPT
                     !.inputsandbox =
                         Append(@, PyStr(AppDirectory \o "/ratProdRunner.py")),
                     !.phase = "prepared",
                     !.jobconfig =
                         [exe  |-> AppDirectory \o "/sillyPythonWrapper.py",
                          args |-> <<"-s", "ratProdRunner.py", "-l", "wg", "-a",
                                     WGArgsString(job.app, job.app.ratDirectory,
                                                  ResolveProxy(job, env).v, cfg)>>]],
          tmpfiles |-> files]

\* swDir as LCGRTHandler.prepare chooses it
LCGSwDir(app) ==
    IF app.ratDirectory = "" THEN "$VO_SNOPLUS_SNOLAB_CA_SW_DIR/snoing-install"
    ELSE app.ratDirectory

\* LCGRTHandler.prepare
LCGPrepare(job, cfg, env, files) ==
    [job |-> [job EXCEPT
                !.backend.software =
                    "VO-snoplus.snolab.ca-rat-" \o job.app.ratVersion,
                !.inputsandbox =
                    Append(@, PyStr(AppDirectory \o "/ratProdRunner.py")),
                !.phase = "prepared",
                !.jobconfig =
                    [exe  |-> AppDirectory \o "/sillyPythonWrapper.py",
                     args |-> <<"-s", "ratProdRunner.py", "-l", "lcg", "-a",
                                "\"" \o LCGArgsString(job.app, LCGSwDir(job.app), cfg)
                                     \o "\"">>]],
     tmpfiles |-> files]

\* allHandlers: the handler registered for the job's backend
PrepareJob(job, cfg, env, files) ==
    IF job.backend.kind = "LCG" THEN LCGPrepare(job, cfg, env, files)
    ELSE IF job.backend.kind = "WestGrid" THEN WGPrepare(job, cfg, env, files)
    ELSE RTPrepare(job, cfg, env, files)

---------------------------------------------------------------------------
(* Inputs *)

\* (prodScript, ratMacro) of a master application: neither, script, macro, both
Modes ==
    { <<"", "">>, <<"a/b/p.py", "">>, <<"", "m/r.mac">>, <<"p.py", "r.mac">> }

\* (outputDir, inputDir)
Dirs == { <<"", "">>, <<"out", "in">> }

Environments ==
    { PyNone, PyList(<<"source env.sh", "export X=1">>), PyStr("/home/u/env.sh") }

\* environment overrides of independent jobs: two command lists and a path
JobEnvironments ==
    { PyList(<<"source a.sh">>), PyList(<<"source b.sh", "export X=1">>),
      PyStr("/home/u/env.sh") }

OutNames(n) == [k \in 1..n |-> "o" \o ToString(k) \o ".root"]
InNames(n) == [k \in 1..n |-> "f" \o ToString(k) \o ".root"]

Options(pswd) ==
    [rat_db_user |-> PyStr("snoplus"), rat_db_pswd |-> pswd,
     rat_db_name |-> PyStr("ratdb"), rat_db_protocol |-> PyStr("https"),
     rat_db_url |-> PyStr("db.example")]

Backend(kind, voproxy) == [kind |-> kind, voproxy |-> voproxy, software |-> ""]

OsEnv(proxy) ==
    [X509_USER_PROXY |-> proxy, paths |-> {"/e/proxy", "/p/proxy"}, login |-> "user"]

\* (job.backend, os environment): local, grid, and WestGrid with the proxy
\* missing, taken from the environment, or pointing at no file
Scenarios ==
    { <<Backend("Local", PyNone), OsEnv(PyNone)>>,
      <<Backend("LCG", PyNone), OsEnv(PyNone)>>,
      <<Backend("WestGrid", PyNone), OsEnv(PyNone)>>,
      <<Backend("WestGrid", PyNone), OsEnv(PyStr("/e/proxy"))>>,
      <<Backend("WestGrid", PyStr("/p/absent")), OsEnv(PyStr("/e/proxy"))>> }

SplitScenarios ==
    { sc \in Scenarios :
        sc[1].kind = "WestGrid" => (sc[1].voproxy.t = "none" /\ sc[2].X509_USER_PROXY.t # "none") }

\* a RATProd application: the schema's fields (defaults where not given)
App(mode, dirs, env, ratDirectory, useDB, pswd, discard, outputFiles, inputFiles) ==
    [environment   |-> env,
     discardOutput |-> discard,
     inputDir      |-> dirs[2],
     inputFiles    |-> inputFiles,
     outputDir     |-> dirs[1],
     outputFiles   |-> outputFiles,
     prodScript    |-> mode[1],
     rat_db_pswd   |-> pswd,
     ratDirectory  |-> ratDirectory,
     ratMacro      |-> mode[2],
     ratVersion    |-> "4",
     useDB         |-> useDB]

NoJobConfig == [exe |-> "", args |-> <<>>]

Job(app, backend) ==
    [app |-> app, inputsandbox |-> <<>>, outputsandbox |-> <<>>,
     backend |-> backend, phase |-> "new", error |-> "", jobconfig |-> NoJobConfig]

NoSplitter ==
    [inputFiles |-> <<>>, outputFiles |-> <<>>, prodScript |-> <<>>, ratMacro |-> <<>>]

\* the elements of a splitter's file sequences: single names and lists of names
SplitOut(shape, n) ==
    [k \in 1..n |->
        IF (k + shape) % 2 = 0 THEN PyStr("o" \o ToString(k) \o ".root")
        ELSE PyList(<<"o" \o ToString(k) \o "a.root", "o" \o ToString(k) \o "b.root">>)]

SplitIn(shape, n) ==
    [k \in 1..n |->
        IF (k + shape) % 2 = 1 THEN PyStr("f" \o ToString(k) \o ".root")
        ELSE PyList(<<"f" \o ToString(k) \o ".root">>)]

SplitScripts(n) == [k \in 1..n |-> "d/s" \o ToString(k) \o ".py"]
SplitMacros(n) == [k \in 1..n |-> "m" \o ToString(k) \o ".mac"]

---------------------------------------------------------------------------
(* Initial states *)

\* a job without a splitter, submitted: the job itself is configured and prepared
Init ==
    \E mode \in Modes, dirs \in Dirs, env \in Environments, sc \in Scenarios,
       ratDirectory \in {"", "/sw/snoing"}, useDB \in BOOLEAN, discard \in BOOLEAN,
       pswd \in {PyNone, PyStr("secret")},
       cfgpswd \in {PyNone, PyStr(""), PyStr("pw")},
       n \in 0..MaxFiles, strIn \in BOOLEAN :
        /\ splitter = NoSplitter
        /\ master = Job(App(mode, dirs, env, ratDirectory, useDB, pswd, discard,
                            PyList(OutNames(n)),
                            IF strIn THEN PyStr("f.root")
                            ELSE PyList(InNames(MaxFiles - n))),
                        sc[1])
        /\ config = Options(cfgpswd)
        /\ osenv = sc[2]
        /\ pc = "run"
        /\ sp = SplitLocals(NoSplitter)
        /\ jobs = <<master>>
        /\ tmpfiles = <<>>

\* a job with a RATSplitter, about to be split
InitSplit ==
    \E mode \in Modes, env \in {PyNone, PyList(<<"source env.sh">>)},
       sc \in SplitScenarios, shape \in 0..1,
       nIn \in 0..MaxFiles, nOut \in 0..MaxFiles,
       nScript \in 0..MaxFiles, nMacro \in 0..MaxFiles :
        /\ splitter = [inputFiles |-> SplitIn(shape, nIn),
                       outputFiles |-> SplitOut(shape, nOut),
                       prodScript |-> SplitScripts(nScript),
                       ratMacro |-> SplitMacros(nMacro)]
        /\ master = Job(App(mode, <<"out", "in">>, env, "/sw/snoing", FALSE, PyNone,
                            FALSE, PyList(<<>>), PyList(<<>>)),
                        sc[1])
        /\ config = Options(PyNone)
        /\ osenv = sc[2]
        /\ pc = "split"
        /\ sp = SplitLocals(NoSplitter)
        /\ jobs = <<>>
        /\ tmpfiles = <<>>

---------------------------------------------------------------------------
(* Actions *)

\* RATSplitter.split up to the loop: the locals and the validation
SplitValidate ==
    /\ pc = "split"
    /\ sp' = SplitLocals(splitter)
    /\ pc' = IF SplitError(splitter, SplitLocals(splitter)) # ""
             THEN "split_failed" ELSE "splitting"
    /\ UNCHANGED <<splitter, master, config, osenv, jobs, tmpfiles>>

\* one iteration of `for i in range(nFiles)`
SplitCreate ==
    /\ pc = "splitting"
    /\ sp.i < sp.nFiles
    /\ jobs' = Append(jobs, SplitSubjob(splitter, sp, master, sp.i + 1))
    /\ sp' = [sp EXCEPT !.i = @ + 1]
    /\ UNCHANGED <<splitter, master, config, osenv, pc, tmpfiles>>

\* return subjobs
SplitReturn ==
    /\ pc = "splitting"
    /\ sp.i = sp.nFiles
    /\ pc' = "run"
    /\ UNCHANGED <<splitter, master, config, osenv, sp, jobs, tmpfiles>>

\* RATProd.configure on job k
Configure(k) ==
    /\ pc = "run"
    /\ jobs[k].phase = "new"
    /\ jobs' = [jobs EXCEPT ![k] = ConfigureJob(@, config)]
    /\ UNCHANGED <<splitter, master, config, osenv, pc, sp, tmpfiles>>

\* the backend's handler's prepare on job k, once configure has succeeded
Prepare(k) ==
    /\ pc = "run"
    /\ jobs[k].phase = "configured"
    /\ jobs' = [jobs EXCEPT ![k] = PrepareJob(@, config, osenv, tmpfiles).job]
    /\ tmpfiles' = PrepareJob(jobs[k], config, osenv, tmpfiles).tmpfiles
    /\ UNCHANGED <<splitter, master, config, osenv, pc, sp>>

Next ==
    \/ \E k \in DOMAIN jobs : Configure(k)
    \/ \E k \in DOMAIN jobs : Prepare(k)

Spec == Init /\ [][Next]_vars

NextSplit ==
    \/ SplitValidate
    \/ SplitCreate
    \/ SplitReturn
    \/ \E k \in DOMAIN jobs : Configure(k)
    \/ \E k \in DOMAIN jobs : Prepare(k)

SpecSplit == InitSplit /\ [][NextSplit]_vars

\* several independent jobs of one user, each with its own environment
\* override, submitted to a backend served by RTHandler
InitJobs ==
    \E envs \in [1..MaxJobs -> JobEnvironments],
       modes \in [1..MaxJobs -> {<<"a/b/p.py", "">>, <<"", "m/r.mac">>}] :
        /\ splitter = NoSplitter
        /\ master = Job(App(modes[1], <<"out", "in">>, envs[1], "/sw/snoing", FALSE,
                            PyNone, FALSE, PyList(<<"o1.root">>), PyList(<<>>)),
                        Backend("Local", PyNone))
        /\ config = Options(PyNone)
        /\ osenv = OsEnv(PyNone)
        /\ pc = "run"
        /\ sp = SplitLocals(NoSplitter)
        /\ jobs = [k \in 1..MaxJobs |->
                      Job(App(modes[k], <<"out", "in">>, envs[k], "/sw/snoing", FALSE,
                              PyNone, FALSE, PyList(<<"o1.root">>), PyList(<<>>)),
                          Backend("Local", PyNone))]
        /\ tmpfiles = <<>>

SpecJobs == InitJobs /\ [][Next]_vars

---------------------------------------------------------------------------
(* Properties of RATSplitter.split (specification SpecSplit) *)

\* a split request that satisfies the four validation rules
ValidRequest(s) ==
    /\ (Len(s.prodScript) = 0) # (Len(s.ratMacro) = 0)
    /\ Len(s.inputFiles) # 0 \/ Len(s.outputFiles) # 0
    /\ (Len(s.inputFiles) # 0 /\ Len(s.outputFiles) # 0)
           => Len(s.inputFiles) = Len(s.outputFiles)
    /\ Len(s.prodScript) # 0 =>
           Len(s.prodScript) \in {Len(s.inputFiles), Len(s.outputFiles)}
    /\ Len(s.ratMacro) # 0 =>
           Len(s.ratMacro) \in {Len(s.inputFiles), Len(s.outputFiles)}

\* the length of the non-empty inputFiles/outputFiles sequence
FileCount(s) ==
    IF Len(s.inputFiles) > Len(s.outputFiles) THEN Len(s.inputFiles)
    ELSE Len(s.outputFiles)

\* C1: for a valid request split returns exactly fileCount sub-jobs, and
\* sub-job i (in list order) carries outputFiles[i] when the output sequence
\* is non-empty, inputFiles[i] when the input sequence is non-empty, and
\* scripts[i] as prodScript or macros[i] as ratMacro, whichever is populated
C1_SplitSlices ==
    /\ ValidRequest(splitter) => pc # "split_failed"
    /\ (ValidRequest(splitter) /\ pc = "run") =>
        /\ Len(jobs) = FileCount(splitter)
        /\ \A n \in 1..Len(jobs) :
            /\ Len(splitter.prodScript) # 0 =>
                   jobs[n].app.prodScript = splitter.prodScript[n]
            /\ Len(splitter.ratMacro) # 0 =>
                   jobs[n].app.ratMacro = splitter.ratMacro[n]
            /\ (jobs[n].phase = "new" /\ Len(splitter.outputFiles) # 0) =>
                   jobs[n].app.outputFiles = splitter.outputFiles[n]
            /\ (jobs[n].phase = "new" /\ Len(splitter.inputFiles) # 0) =>
                   jobs[n].app.inputFiles = splitter.inputFiles[n]

C1_Witness ==
    /\ pc = "run"
    /\ Len(jobs) = 2
    /\ Len(splitter.inputFiles) = 2 /\ Len(splitter.outputFiles) = 2
    /\ Len(splitter.prodScript) = 2
    /\ \A n \in 1..2 : jobs[n].phase = "new"
    /\ jobs[2].app.prodScript = splitter.prodScript[2]
    /\ jobs[2].app.inputFiles = splitter.inputFiles[2]

\* C3: split raises, returning no sub-job list, whenever scripts and macros
\* are both non-empty and whenever both are empty, whatever the file sequences
C3_ScriptXorMacro ==
    (pc # "split" /\ (Len(splitter.prodScript) = 0) = (Len(splitter.ratMacro) = 0))
        => (pc = "split_failed" /\ jobs = <<>>)

C3_Witness ==
    /\ pc = "split_failed"
    /\ Len(splitter.prodScript) = 2 /\ Len(splitter.ratMacro) = 2
    /\ Len(splitter.inputFiles) = 2 /\ Len(splitter.outputFiles) = 2

\* C4: split raises whenever inputFiles and outputFiles are both non-empty
\* and of different lengths, for every choice of scripts and macros
C4_InOutLengths ==
    (/\ pc # "split"
     /\ Len(splitter.inputFiles) # 0 /\ Len(splitter.outputFiles) # 0
     /\ Len(splitter.inputFiles) # Len(splitter.outputFiles))
        => (pc = "split_failed" /\ jobs = <<>>)

C4_Witness ==
    /\ pc = "split_failed"
    /\ Len(splitter.inputFiles) = 1 /\ Len(splitter.outputFiles) = 2
    /\ Len(splitter.prodScript) = 2 /\ Len(splitter.ratMacro) = 0

\* C5: split raises when inputFiles and outputFiles are both empty, and when
\* the non-empty script-or-macro sequence's length differs from the file
\* count; a split that raised has created no sub-job
C5_NothingToSplitOrCount ==
    /\ (/\ pc # "split"
        /\ \/ Len(splitter.inputFiles) = 0 /\ Len(splitter.outputFiles) = 0
           \/ Len(splitter.prodScript) # 0 /\ Len(splitter.prodScript) # FileCount(splitter)
           \/ Len(splitter.ratMacro) # 0 /\ Len(splitter.ratMacro) # FileCount(splitter))
            => pc = "split_failed"
    /\ pc = "split_failed" => (jobs = <<>> /\ sp.i = 0)

C5_Witness ==
    /\ pc = "split_failed"
    /\ Len(splitter.inputFiles) = 2 /\ Len(splitter.outputFiles) = 2
    /\ Len(splitter.prodScript) = 0 /\ Len(splitter.ratMacro) = 1
    /\ jobs = <<>>

\* C12: every sub-job returned by a successful split has exactly one of
\* prodScript / ratMacro non-empty, for every parent job and every valid
\* request, so that configure's mutual-exclusion check accepts each sub-job
C12_SubjobsOneMode ==
    (pc = "run" /\ ValidRequest(splitter)) =>
        \A k \in DOMAIN jobs :
            /\ (jobs[k].app.prodScript = "") # (jobs[k].app.ratMacro = "")
            /\ jobs[k].phase # "configure_failed"

---------------------------------------------------------------------------
(* Properties of configure and prepare (specification Spec) *)

\* the whitespace-separated tokens of an argument string
Tokens(str) ==
    LET IsSpace(n) == SubSeq(str, n, n) = " "
        Starts == {n \in 1..Len(str) : ~IsSpace(n) /\ (n = 1 \/ IsSpace(n - 1))}
        End(a) == CHOOSE m \in a..Len(str) :
                      /\ m = Len(str) \/ IsSpace(m + 1)
                      /\ \A q \in a..m : ~IsSpace(q)
        Nth(i) == CHOOSE a \in Starts : Cardinality({b \in Starts : b <= a}) = i
    IN  [i \in 1..Cardinality(Starts) |-> SubSeq(str, Nth(i), End(Nth(i)))]

\* the runner's arguments in a prepared job's config, as tokens: the list
\* itself, or the tokens of the string that follows the wrapper's -a
RunnerArgs(job) ==
    LET args == job.jobconfig.args
        last == args[Len(args)]
    IN  IF job.jobconfig.exe = AppDirectory \o "/ratProdRunner.py" THEN args
        ELSE IF job.backend.kind = "LCG" THEN Tokens(SubSeq(last, 2, Len(last) - 1))
        ELSE Tokens(last)

Range(seq) == {seq[n] : n \in DOMAIN seq}

RECURSIVE IndexFrom(_, _, _)
IndexFrom(seq, x, n) ==
    IF n > Len(seq) THEN 0
    ELSE IF seq[n] = x THEN n
    ELSE IndexFrom(seq, x, n + 1)

\* the token that follows the first occurrence of flag
After(seq, flag) ==
    LET n == IndexFrom(seq, flag, 1)
    IN  IF n = 0 \/ n = Len(seq) THEN "<absent>" ELSE seq[n + 1]

FileFlags == <<"-v", "-s", "-d", "-o", "-x", "-i", "-m">>
DBFlags == <<"--dbuser", "--dbpassword", "--dbname", "--dbprotocol", "--dburl">>
IsOrderedFlag(tok) == tok \in Range(FileFlags) \cup Range(DBFlags)

RECURSIVE JoinComma(_)
JoinComma(names) ==
    IF names = <<>> THEN ""
    ELSE IF Len(names) = 1 THEN names[1]
    ELSE names[1] \o "," \o JoinComma(Tail(names))

\* a bracketed comma-joined list with no trailing comma
Bracketed(names) == "[" \o JoinComma(names) \o "]"

\* f is the last '/'-delimited component of path
IsLastComponent(f, path) ==
    \E n \in 0..Len(path) :
        /\ f = SubSeq(path, n + 1, Len(path))
        /\ n > 0 => SubSeq(path, n, n) = "/"
        /\ \A m \in n + 1..Len(path) : SubSeq(path, m, m) # "/"

Prepared == {k \in DOMAIN jobs : jobs[k].phase = "prepared"}

\* C2: in every handler the outputFiles and inputFiles lists are rendered as
\* a bracketed comma-joined token with no trailing comma: [] for the empty
\* list, [a] for one element, [a,b] for two
C2_ListsBracketed ==
    \A k \in Prepared :
        /\ After(RunnerArgs(jobs[k]), "-o") = Bracketed(jobs[k].app.outputFiles.v)
        /\ After(RunnerArgs(jobs[k]), "-i") = Bracketed(jobs[k].app.inputFiles.v)

\* C6: in every handler the runner arguments hold -v, -s, -d, -o, -x, -i and
\* -m in this order, each followed by its value, and the five database flags
\* follow -m, in their order, exactly when useDB is set
C6_FlagOrder ==
    \A k \in Prepared :
        LET app == jobs[k].app
            t   == RunnerArgs(jobs[k])
        IN  /\ SelectSeq(t, IsOrderedFlag) =
                   FileFlags \o (IF app.useDB THEN DBFlags ELSE <<>>)
            /\ After(t, "-v") = app.ratVersion
            /\ After(t, "-s") = IF app.ratDirectory = ""
                                THEN "$VO_SNOPLUS_SNOLAB_CA_SW_DIR/snoing-install"
                                ELSE app.ratDirectory
            /\ app.outputDir # "" => After(t, "-d") = app.outputDir
            /\ After(t, "-o") = Serialize(app.outputFiles)
            /\ app.inputDir # "" => After(t, "-x") = app.inputDir
            /\ After(t, "-i") = Serialize(app.inputFiles)
            /\ app.useDB =>
                   /\ After(t, "--dbuser") = config.rat_db_user.v
                   /\ After(t, "--dbpassword") = config.rat_db_pswd.v
                   /\ After(t, "--dbname") = config.rat_db_name.v
                   /\ After(t, "--dbprotocol") = config.rat_db_protocol.v
                   /\ After(t, "--dburl") = config.rat_db_url.v

C6_Witness ==
    \E k \in Prepared :
        /\ jobs[k].app.useDB
        /\ jobs[k].backend.kind = "WestGrid"
        /\ jobs[k].app.outputDir # ""
        /\ Len(jobs[k].app.outputFiles.v) = 2

\* C7: in every handler a job in macro mode gets "-m f" and no "-k", f the
\* last '/'-delimited component of the macro path; any other job gets
\* "-k -m f", f the last component of the script path
C7_RunFile ==
    \A k \in Prepared :
        LET app == jobs[k].app
            t   == RunnerArgs(jobs[k])
            n   == IndexFrom(t, "-m", 1)
        IN  /\ n > 0 /\ n < Len(t)
            /\ ("-k" \in Range(t)) = (app.ratMacro = "")
            /\ app.ratMacro # "" => IsLastComponent(t[n + 1], app.ratMacro)
            /\ app.ratMacro = "" =>
                   /\ n > 1 /\ t[n - 1] = "-k"
                   /\ IsLastComponent(t[n + 1], app.prodScript)

C7_Witness ==
    \E k \in Prepared :
        /\ jobs[k].app.ratMacro = "" /\ jobs[k].app.prodScript = "a/b/p.py"
        /\ jobs[k].backend.kind = "LCG"
        /\ After(RunnerArgs(jobs[k]), "-k") = "-m"
        /\ After(RunnerArgs(jobs[k]), "-m") = "p.py"

\* C8: in every handler --nostore is among the runner arguments exactly when
\* discardOutput is set, and it is then their last token
C8_NoStoreLast ==
    \A k \in Prepared :
        LET t == RunnerArgs(jobs[k])
        IN  /\ ("--nostore" \in Range(t)) = jobs[k].app.discardOutput
            /\ jobs[k].app.discardOutput => t[Len(t)] = "--nostore"

C8_Witness ==
    \E k \in Prepared :
        /\ jobs[k].app.discardOutput /\ jobs[k].app.useDB
        /\ jobs[k].backend.kind = "WestGrid"
        /\ RunnerArgs(jobs[k])[Len(RunnerArgs(jobs[k]))] = "--nostore"

\* C9: when the application has useDB set and its database password
\* (rat_db_pswd) is empty or unset, configure fails and prepare never runs
\* for the job; when useDB is not set configure does not fail on the password
C9_AppPasswordRequired ==
    \A k \in DOMAIN jobs :
        /\ (jobs[k].app.useDB /\ Falsy(jobs[k].app.rat_db_pswd))
               => jobs[k].phase \in {"new", "configure_failed"}
        /\ (~jobs[k].app.useDB /\ jobs[k].phase = "configure_failed")
               => jobs[k].error # "Need a password in order to contact the ratdb database"

\* a configure or prepare step on job k that raised left the job's sandboxes
\* and /tmp as they were
FailedUntouched(k) ==
    /\ jobs'[k].phase \in {"configure_failed", "prepare_failed"}
    /\ jobs'[k].inputsandbox = jobs[k].inputsandbox
    /\ jobs'[k].outputsandbox = jobs[k].outputsandbox
    /\ tmpfiles' = tmpfiles

---------------------------------------------------------------------------
(* Properties of the shipped environment (specification SpecJobs) *)

\* the jobs RTHandler has prepared with a list-form environment
PreparedWithList ==
    {k \in Prepared : /\ jobs[k].backend.kind \notin {"LCG", "WestGrid"}
                      /\ jobs[k].app.environment.t = "list"}

\* the environment file a prepared job's wrapper arguments reference
EnvFile(job) == After(job.jobconfig.args, "-f")

\* the file holds the job's commands, one per line
HoldsLines(name, lines) ==
    /\ name \in DOMAIN tmpfiles
    /\ Len(tmpfiles[name]) = Len(lines)
    /\ \A n \in 1..Len(lines) : tmpfiles[name][n] = lines[n] \o " \n"

\* C11: after any sequence of preparations of distinct jobs of one user with
\* list-form environments, each job's environment file is distinct from every
\* other job's and still holds that job's own lines; a path-form environment
\* is referenced by its base filename
C11_EnvFilePerJob ==
    /\ \A k \in PreparedWithList :
        /\ HoldsLines(EnvFile(jobs[k]), jobs[k].app.environment.v)
        /\ \A j \in PreparedWithList \ {k} : EnvFile(jobs[j]) # EnvFile(jobs[k])
    /\ \A k \in Prepared :
        (jobs[k].backend.kind \notin {"LCG", "WestGrid"}
            /\ jobs[k].app.environment.t = "str")
            => IsLastComponent(EnvFile(jobs[k]), jobs[k].app.environment.v)

---------------------------------------------------------------------------
(* Properties of split, configure and prepare in sequence (specification SpecSplit) *)

\* what split left in sub-job k's inputFiles / outputFiles: the k-th slice,
\* or the parent's value when the splitter's sequence is empty
InSlice(k) ==
    IF Len(splitter.inputFiles) # 0 THEN splitter.inputFiles[k]
    ELSE master.app.inputFiles
OutSlice(k) ==
    IF Len(splitter.outputFiles) # 0 THEN splitter.outputFiles[k]
    ELSE master.app.outputFiles

Configured == {k \in DOMAIN jobs :
                  jobs[k].phase \in {"configured", "prepared", "prepare_failed"}}

\* C13: after configure succeeds inputFiles and outputFiles are each a list:
\* a field that held a single string s is the one-element list [s], a field
\* that held a list is unchanged; and a prepared sub-job whose slice is the
\* single name s carries the token [s] after -i (or -o)
C13_FilesForcedToLists ==
    pc = "run" =>
        /\ \A k \in Configured :
            /\ jobs[k].app.inputFiles.t = "list"
            /\ jobs[k].app.outputFiles.t = "list"
            /\ InSlice(k).t = "str" => jobs[k].app.inputFiles.v = <<InSlice(k).v>>
            /\ OutSlice(k).t = "str" => jobs[k].app.outputFiles.v = <<OutSlice(k).v>>
            /\ InSlice(k).t = "list" => jobs[k].app.inputFiles = InSlice(k)
            /\ OutSlice(k).t = "list" => jobs[k].app.outputFiles = OutSlice(k)
        /\ \A k \in Prepared :
            /\ InSlice(k).t = "str" =>
                   After(RunnerArgs(jobs[k]), "-i") = "[" \o InSlice(k).v \o "]"
            /\ OutSlice(k).t = "str" =>
                   After(RunnerArgs(jobs[k]), "-o") = "[" \o OutSlice(k).v \o "]"

C13_Witness ==
    /\ pc = "run"
    /\ Len(jobs) = 2
    /\ 2 \in Prepared
    /\ Len(splitter.inputFiles) = 2 /\ Len(splitter.outputFiles) = 2
    /\ splitter.outputFiles[2] = PyStr("o2.root")
    /\ splitter.inputFiles[2] = PyList(<<"f2.root">>)
    /\ jobs[2].app.outputFiles = PyList(<<"o2.root">>)
    /\ After(RunnerArgs(jobs[2]), "-o") = "[o2.root]"
    /\ splitter.inputFiles[1] = PyStr("f1.root")
    /\ 1 \in Configured

=============================================================================
